---- MODULE Spec2Model ----
(***************************************************************************)
(* A model of the Bilibili batch-block userscript (src/main.js, and the    *)
(* list-expanding variant src/unnamed/part_000): the credential read at    *)
(* script load, the extractor, the block call, and the startBatchBlock     *)
(* workflow with its suspension points (the fetch, the body read, the      *)
(* timers), run by the browser's single-threaded event loop.               *)
(*                                                                         *)
(* alert() and confirm() are modal and synchronous, so every action below  *)
(* is one event-loop task: a handler from its start to its next await      *)
(* that really suspends.                                                   *)
(***************************************************************************)
EXTENDS Integers, Sequences, FiniteSets, TLC

\* ------------------------------------------------------------------ bounds

\* Most profile links the recommendation container holds.
MaxLinks == 3
\* Most invocations of startBatchBlock (trigger clicks) in one page session.
MaxRuns == 2

\* ------------------------------------------------------------ plain values

Null == "null"

RunIds == 1..MaxRuns

\* A link's resolved href, as far as /space\.bilibili\.com\/(\d+)/ reads it:
\* whether the host marker "space.bilibili.com/" occurs, and the digits that
\* follow it at once ("" when none do).
Urls ==
    { [marker |-> TRUE,  digits |-> "1"],
      [marker |-> TRUE,  digits |-> "2"],
      [marker |-> TRUE,  digits |-> "3"],
      [marker |-> TRUE,  digits |-> ""],
      [marker |-> FALSE, digits |-> "1"] }

Uids == {"1", "2", "3"}

RECURSIVE SeqsUpTo(_, _)
SeqsUpTo(S, n) ==
    IF n = 0 THEN {<<>>}
    ELSE LET shorter == SeqsUpTo(S, n - 1)
         IN  shorter \cup {Append(s, x) : s \in {t \in shorter : Len(t) = n - 1}, x \in S}

\* The cookie store: name=value pairs in document.cookie order.
Cookies ==
    { <<[name |-> "sid", value |-> "s"]>>,
      <<[name |-> "sid", value |-> "s"], [name |-> "bili_jct", value |-> "tok"]>> }

\* What the provider answers, as the client receives it: the HTTP status and
\* the body, which is JSON {code, message} or not JSON at all.
Malformed == [json |-> FALSE, code |-> 0, message |-> ""]
JsonOk == [json |-> TRUE, code |-> 0, message |-> "0"]
JsonRejected == [json |-> TRUE, code |-> -6, message |-> "rejected"]
JsonBlocked == [json |-> TRUE, code |-> -412, message |-> "intercepted"]

Responses ==
    { [status |-> 200, body |-> JsonOk],
      [status |-> 200, body |-> JsonRejected],
      [status |-> 200, body |-> Malformed],
      [status |-> 412, body |-> JsonBlocked],
      [status |-> 500, body |-> Malformed] }

NoRequest == [stage |-> "none", fid |-> "", csrf |-> "", applied |-> FALSE,
              response |-> [status |-> 0, body |-> Malformed]]

NoCall == [uid |-> "", result |-> [success |-> FALSE, msg |-> ""],
           via |-> "none", response |-> [status |-> 0, body |-> Malformed],
           applied |-> FALSE]

NoOverlay == [attached |-> FALSE, text |-> <<>>]

\* ------------------------------------------------------------------- state

VARIABLES
    variant,     \* the script whose startBatchBlock the mounted button carries:
                 \* "main" (src/main.js), "expand" (part_000), "none" before a mount
    cookie,      \* document.cookie
    csrf_token,  \* the module-level credential, read once at script load
    dom,         \* the host page: the container, its links, the expand control
    buttons,     \* how many elements with the id batch-block-btn the page holds
    runs,        \* the invocations of startBatchBlock, by run id
    net,         \* each run's block request in flight
    blocked      \* the provider's block list

vars == <<variant, cookie, csrf_token, dom, buttons, runs, net, blocked>>

\* -------------------------------------------------------------- pure parts

\* getCsrfToken: the value of the first bili_jct=... of the cookie string.
RECURSIVE GetCsrfToken(_)
GetCsrfToken(c) ==
    IF c = <<>> THEN Null
    ELSE IF Head(c).name = "bili_jct" /\ Head(c).value # "" THEN Head(c).value
    ELSE GetCsrfToken(Tail(c))

\* parseUidFromUrl: the digits after the host marker, or null.
ParseUidFromUrl(url) ==
    IF url.marker /\ url.digits # "" THEN url.digits ELSE Null

InSeq(x, s) == \E k \in 1..Len(s) : s[k] = x

\* A collector that keeps an identifier every time it meets it.
RECURSIVE CollectUids_NoDedup(_, _)
CollectUids_NoDedup(links, uids) ==
    IF links = <<>> THEN uids
    ELSE LET uid == ParseUidFromUrl(Head(links))
         IN  CollectUids_NoDedup(Tail(links),
                                 IF uid # Null THEN Append(uids, uid) ELSE uids)

\* links.forEach(... uids.add(uid)) and Array.from(uids): a Set iterates in
\* insertion order, and adding a member again changes nothing.
RECURSIVE CollectUids(_, _)
CollectUids(links, uids) ==
    IF links = <<>> THEN uids
    ELSE LET uid == ParseUidFromUrl(Head(links))
         IN  CollectUids(Tail(links),
                         IF uid # Null /\ ~InSeq(uid, uids) THEN Append(uids, uid) ELSE uids)

GetRecommendationUids(d) ==
    IF ~d.container THEN <<>> ELSE CollectUids(d.links, <<>>)


\* A blockUser without its credential guard: it sends whatever the token is.
BlockUserEntry_NoGuard(tok, uid) ==
    [sent |-> TRUE,
     result |-> [success |-> FALSE, msg |-> ""],
     request |-> [stage |-> "sent", fid |-> uid, csrf |-> tok, applied |-> FALSE,
                  response |-> [status |-> 0, body |-> Malformed]]]

\* A blockUser that reads the cookie again at every call.
BlockUserEntry_Refresh(tok, uid) ==
    LET now == GetCsrfToken(cookie)
    IN  IF now = Null
        THEN [sent |-> FALSE,
              result |-> [success |-> FALSE, msg |-> "Not Logged In"],
              request |-> NoRequest]
        ELSE [sent |-> TRUE,
              result |-> [success |-> FALSE, msg |-> ""],
              request |-> [stage |-> "sent", fid |-> uid, csrf |-> now, applied |-> FALSE,
                           response |-> [status |-> 0, body |-> Malformed]]]

\* blockUser up to its first await: without a credential it returns at once;
\* with one it builds the form body and sends the POST.
BlockUserEntry(tok, uid) ==
    IF tok = Null
    THEN [sent |-> FALSE,
          result |-> [success |-> FALSE, msg |-> "Not Logged In"],
          request |-> NoRequest]
    ELSE [sent |-> TRUE,
          result |-> [success |-> FALSE, msg |-> ""],
          request |-> [stage |-> "sent", fid |-> uid, csrf |-> tok, applied |-> FALSE,
                       response |-> [status |-> 0, body |-> Malformed]]]

\* A branch on data.code that takes every parsed body for a success.
ParsedResult_AnyCode(uid, data) == [success |-> TRUE, uid |-> uid]

\* blockUser after `data = await res.json()` gave a value: the branch on data.code.
ParsedResult(uid, data) ==
    IF data.code = 0
    THEN [success |-> TRUE, uid |-> uid]
    ELSE [success |-> FALSE, uid |-> uid, msg |-> data.message]

\* blockUser's catch: fetch rejected, or res.json() threw.
CaughtResult(uid) == [success |-> FALSE, uid |-> uid, msg |-> "Network Error"]

\* The error taxonomy's name for a block result.
Kind(result) ==
    IF result.success THEN "Success"
    ELSE IF result.msg = "Not Logged In" THEN "Unauthenticated"
    ELSE IF result.msg = "Network Error" THEN "NetworkError"
    ELSE "ProviderRejected"

\* A counter that counts every call, failed or not.
CountSuccess_Every(count, result) == count + 1

\* `if (result.success) successCount++`
CountSuccess(count, result) == IF result.success THEN count + 1 ELSE count

\* ------------------------------------------------------------ the workflow

Dialog(kind, msg, count, total) ==
    [kind |-> kind, msg |-> msg, count |-> count, total |-> total]

IdleRun ==
    [pc |-> "idle", uidArray |-> <<>>, i |-> 0, successCount |-> 0,
     statusDiv |-> NoOverlay, dialogs |-> <<>>, clicks |-> 0,
     issued |-> <<>>, resolved |-> 0, delays |-> 0, code0 |-> 0,
     lastCall |-> NoCall]

\* The loop body from `const result = await blockUser(uid)` having a result to
\* the start of `await sleep(CONFIG.blockInterval)`.
AfterResult(run, call) ==
    [run EXCEPT !.pc = "sleep",
                !.successCount = CountSuccess(run.successCount, call.result),
                !.resolved = run.resolved + 1,
                !.lastCall = call]

\* A cleanup that shows the summary and leaves the overlay in the page.
Finish_KeepOverlay(run) ==
    [run EXCEPT !.pc = "returned",
                !.lastCall = NoCall,
                !.dialogs = Append(run.dialogs,
                                   Dialog("alert", "complete", run.successCount,
                                          Len(run.uidArray)))]

\* Step 6: statusDiv.remove() and the final alert.
Finish(run) ==
    [run EXCEPT !.pc = "returned",
                !.lastCall = NoCall,
                !.statusDiv = [run.statusDiv EXCEPT !.attached = FALSE],
                !.dialogs = Append(run.dialogs,
                                   Dialog("alert", "complete", run.successCount,
                                          Len(run.uidArray)))]

\* An empty check that lets the empty list through.
NothingFound_Never(uidArray) == FALSE

\* `if (uidArray.length === 0)`
NothingFound(uidArray) == Len(uidArray) = 0

\* A confirmation whose answer is not read.
Confirmed_Always(answer) == TRUE

\* `if (!confirm(confirmMsg)) return`: the run goes on when the user accepted.
Confirmed(answer) == answer

\* A loop that stops at the first failed call.
LoopTest_AbortOnFailure(run) ==
    /\ run.i < Len(run.uidArray)
    /\ (run.i = 0 \/ run.lastCall.result.success)

\* The loop test `i < uidArray.length`.
LoopTest(run) == run.i < Len(run.uidArray)

\* A loop that walks the array from its end.
CurrentUid_Reversed(run) == run.uidArray[Len(run.uidArray) - run.i]

\* A loop that takes its identifier from the page as it is now, where the page
\* still has one at that index.
CurrentUid_Live(run) ==
    LET live == GetRecommendationUids(dom)
    IN  IF run.i + 1 <= Len(live) THEN live[run.i + 1] ELSE run.uidArray[run.i + 1]

\* `const uid = uidArray[i]` (the array is 0-based, the sequence 1-based).
CurrentUid(run) == run.uidArray[run.i + 1]

\* A loop that stays on an identifier whose call failed.
NextIndex_RetryFailed(run) == IF run.lastCall.result.success THEN run.i + 1 ELSE run.i

\* The loop's `i++`.
NextIndex(run) == run.i + 1

\* The for statement at index run.i: the test i < uidArray.length, then either
\* the body up to the await of blockUser(uid), or the code after the loop.
LoopStep(run, tok) ==
    IF LoopTest(run)
    THEN LET uid == CurrentUid(run)
             shown == [run EXCEPT !.statusDiv.text = <<run.i + 1, Len(run.uidArray), uid>>]
             entry == BlockUserEntry(tok, uid)
         IN  IF entry.sent
             THEN [run |-> [shown EXCEPT !.pc = "fetch",
                                         !.issued = Append(shown.issued, uid),
                                         !.lastCall = NoCall],
                   req |-> entry.request]
             ELSE [run |-> AfterResult(shown,
                                       [uid |-> uid, result |-> entry.result,
                                        via |-> "none",
                                        response |-> NoCall.response,
                                        applied |-> FALSE]),
                   req |-> NoRequest]
    ELSE [run |-> Finish(run), req |-> NoRequest]

\* startBatchBlock from the extraction to its first await (or its return):
\* getRecommendationUids with its alert, the empty check, the confirmation,
\* createStatusOverlay, and the first iteration of the loop.
ExtractAndConfirm(run, d, v, tok, accept) ==
    LET uidArray == GetRecommendationUids(d)
        scanned == [run EXCEPT !.uidArray = uidArray,
                               !.dialogs = IF v = "main" /\ ~d.container
                                           THEN Append(run.dialogs,
                                                       Dialog("alert", "container not found", 0, 0))
                                           ELSE run.dialogs]
    IN  IF NothingFound(uidArray)
        THEN [run |-> [scanned EXCEPT !.pc = "returned",
                                      !.dialogs = Append(scanned.dialogs,
                                                         Dialog("alert", "no creators", 0, 0))],
              req |-> NoRequest]
        ELSE LET asked == [scanned EXCEPT
                               !.dialogs = Append(scanned.dialogs,
                                                  Dialog(IF accept THEN "confirm-ok"
                                                                   ELSE "confirm-cancel",
                                                         "found", Len(uidArray), 0))]
             IN  IF ~Confirmed(accept)
                 THEN [run |-> [asked EXCEPT !.pc = "returned"], req |-> NoRequest]
                 ELSE LoopStep([asked EXCEPT !.statusDiv = [attached |-> TRUE, text |-> <<>>],
                                             !.successCount = 0,
                                             !.i = 0],
                               tok)

\* A test that clicks the control whenever it exists, shown or not.
ExpandNeeded_IgnoresVisibility(d) == d.expandBtn # "absent"

\* expandListIfNeeded's test: the control exists and is visible.
ExpandNeeded(d) == d.expandBtn = "visible"

\* A workflow that takes the expand step in both scripts.
Expands_EitherScript(v, d) == ExpandNeeded(d)

\* Whether startBatchBlock clicks the expand control and waits: main.js has
\* no such step, part_000 awaits expandListIfNeeded() first.
Expands(v, d) == v = "expand" /\ ExpandNeeded(d)

\* The run id a new invocation takes: the first one not yet used.
FreeRun(r) == runs[r].pc = "idle" /\ \A q \in 1..(r - 1) : runs[q].pc # "idle"

\* A click on the trigger button: btn.onclick = startBatchBlock.
StartBatchBlock(r, accept) ==
    /\ buttons > 0
    /\ FreeRun(r)
    /\ IF csrf_token = Null
       THEN /\ runs' = [runs EXCEPT ![r] =
                            [IdleRun EXCEPT !.pc = "returned",
                                            !.dialogs = <<Dialog("alert", "login", 0, 0)>>]]
            /\ UNCHANGED <<net, dom>>
       ELSE IF Expands(variant, dom)
       THEN /\ runs' = [runs EXCEPT ![r] = [IdleRun EXCEPT !.pc = "expandWait", !.clicks = 1]]
            /\ dom' = [dom EXCEPT !.pending = TRUE]
            /\ UNCHANGED net
       ELSE LET next == ExtractAndConfirm(IdleRun, dom, variant, csrf_token, accept)
            IN  /\ runs' = [runs EXCEPT ![r] = next.run]
                /\ net' = [net EXCEPT ![r] = next.req]
                /\ UNCHANGED dom
    /\ UNCHANGED <<variant, cookie, csrf_token, buttons, blocked>>

\* The timer of `await sleep(CONFIG.expandWaitTime)` fires: expandListIfNeeded
\* returns and startBatchBlock goes on with the extraction.
ExpandWaitDone(r, accept) ==
    /\ runs[r].pc = "expandWait"
    /\ LET next == ExtractAndConfirm(runs[r], dom, variant, csrf_token, accept)
       IN  /\ runs' = [runs EXCEPT ![r] = next.run]
           /\ net' = [net EXCEPT ![r] = next.req]
    /\ UNCHANGED <<variant, cookie, csrf_token, dom, buttons, blocked>>

\* The host page answers a click on the expand control: the folded cards join
\* the list and the control goes away.
PageExpand ==
    /\ dom.pending
    /\ dom' = [dom EXCEPT !.pending = FALSE,
                          !.links = dom.links \o dom.more,
                          !.more = <<>>,
                          !.expandBtn = "hidden"]
    /\ UNCHANGED <<variant, cookie, csrf_token, buttons, runs, net, blocked>>

\* Whether the provider can have applied the block when the client receives
\* `resp`: a body with code 0 says it did, any other JSON body says it did
\* not, and a 2xx response whose body is unreadable says nothing.
CanHaveApplied(resp, applied) ==
    IF resp.body.json THEN applied = (resp.body.code = 0)
    ELSE resp.status = 200 \/ ~applied

\* `await fetch(...)` resolves: the response's head has arrived. fetch
\* resolves on every HTTP status; the code reads neither res.ok nor
\* res.status and goes on to `await res.json()`.
FetchResolve(r, resp, applied) ==
    /\ runs[r].pc = "fetch"
    /\ CanHaveApplied(resp, applied)
    /\ runs' = [runs EXCEPT ![r].pc = "json"]
    /\ net' = [net EXCEPT ![r] = [net[r] EXCEPT !.stage = "responded",
                                                !.applied = applied,
                                                !.response = resp]]
    /\ blocked' = IF applied THEN blocked \cup {net[r].fid} ELSE blocked
    /\ UNCHANGED <<variant, cookie, csrf_token, dom, buttons>>

\* `await fetch(...)` rejects (the request or its response was lost): the
\* catch returns the network-error result and the loop goes on to its sleep.
FetchReject(r, applied) ==
    /\ runs[r].pc = "fetch"
    /\ runs' = [runs EXCEPT ![r] =
                    AfterResult(runs[r],
                                [uid |-> net[r].fid, result |-> CaughtResult(net[r].fid),
                                 via |-> "fetch rejected",
                                 response |-> NoCall.response,
                                 applied |-> applied])]
    /\ net' = [net EXCEPT ![r] = NoRequest]
    /\ blocked' = IF applied THEN blocked \cup {net[r].fid} ELSE blocked
    /\ UNCHANGED <<variant, cookie, csrf_token, dom, buttons>>

\* `await res.json()` settles: with the parsed body, or by throwing into the
\* catch when the body is not JSON.
JsonSettle(r) ==
    /\ runs[r].pc = "json"
    /\ LET uid == net[r].fid
           body == net[r].response.body
           call == [uid |-> uid,
                    result |-> IF body.json THEN ParsedResult(uid, body)
                                            ELSE CaughtResult(uid),
                    via |-> IF body.json THEN "json" ELSE "json threw",
                    response |-> net[r].response,
                    applied |-> net[r].applied]
       IN  runs' = [runs EXCEPT ![r] =
                        [AfterResult(runs[r], call) EXCEPT
                             !.code0 = IF body.json /\ body.code = 0
                                       THEN runs[r].code0 + 1 ELSE runs[r].code0]]
    /\ net' = [net EXCEPT ![r] = NoRequest]
    /\ UNCHANGED <<variant, cookie, csrf_token, dom, buttons, blocked>>

\* The timer of `await sleep(CONFIG.blockInterval)` fires: i++ and the loop
\* test, then the next call or the cleanup.
SleepFire(r) ==
    /\ runs[r].pc = "sleep"
    /\ LET next == LoopStep([runs[r] EXCEPT !.i = NextIndex(runs[r]),
                                            !.delays = runs[r].delays + 1],
                            csrf_token)
       IN  /\ runs' = [runs EXCEPT ![r] = next.run]
           /\ net' = [net EXCEPT ![r] = next.req]
    /\ UNCHANGED <<variant, cookie, csrf_token, dom, buttons, blocked>>

\* The two scripts; either or both can be installed on the page.
Scripts == {"main", "expand"}

\* A createStartButton without its guard: it appends a button every time.
MountResult_NoGuard(count, owner, v) == [count |-> count + 1, owner |-> v]

\* createStartButton's effect on the page: `if (document.getElementById(
\* 'batch-block-btn')) return`, else a new button whose onclick is the
\* mounting script's startBatchBlock is appended.
MountResult(count, owner, v) ==
    IF count > 0
    THEN [count |-> count, owner |-> owner]
    ELSE [count |-> count + 1, owner |-> v]

\* createStartButton of script v, run by the timer its load listener set.
CreateStartButton(v) ==
    /\ LET mounted == MountResult(buttons, variant, v)
       IN  /\ buttons' = mounted.count
           /\ variant' = mounted.owner
    /\ UNCHANGED <<cookie, csrf_token, dom, runs, net, blocked>>

\* What document.cookie can hold later in the session: the user logged out,
\* logged in, or the site renewed bili_jct.
LaterCookies ==
    Cookies \cup
        { <<[name |-> "sid", value |-> "s"], [name |-> "bili_jct", value |-> "tok2"]>> }

\* The browser's cookie store changes under the running script. The script
\* reads document.cookie only in getCsrfToken(), called once at load.
CookieChange ==
    /\ \E c \in LaterCookies : c # cookie /\ cookie' = c
    /\ UNCHANGED <<variant, csrf_token, dom, buttons, runs, net, blocked>>

Reverse(s) == [k \in 1..Len(s) |-> s[Len(s) + 1 - k]]

\* What the page can make of its list of links in one change: the first card
\* removed, the cards reordered, a card added.
DomEdits(d) ==
    (IF d.links # <<>> THEN {Tail(d.links)} ELSE {})
        \cup {Reverse(d.links)}
        \cup (IF Len(d.links) + Len(d.more) < MaxLinks
              THEN {Append(d.links, u) : u \in Urls}
              ELSE {})

\* The host page changes its recommendation list while a run is in its loop.
\* The script queries the container only in getRecommendationUids(), before
\* the loop.
DomChange ==
    /\ dom.container
    /\ \E r \in RunIds : runs[r].pc \in {"fetch", "json", "sleep"}
    /\ \E links \in DomEdits(dom) : links # dom.links /\ dom' = [dom EXCEPT !.links = links]
    /\ UNCHANGED <<variant, cookie, csrf_token, buttons, runs, net, blocked>>

\* ------------------------------------------------------------ specification

\* Most cards the page keeps folded behind the expand control.
MaxMore == 1

\* Creators are interchangeable (no code reads an identifier's value), so the
\* pages are taken up to renaming: the first creator met is "1", the next new
\* one "2", and so on.
FirstSeenInOrder(links) ==
    LET seen == CollectUids(links, <<>>)
    IN  \A k \in 1..Len(seen) : seen[k] = <<"1", "2", "3">>[k]

\* The pages: with or without the container, its links, and the expand
\* control with the cards it folds.
AllDoms ==
    { d \in [container : BOOLEAN,
             links : SeqsUpTo(Urls, MaxLinks),
             expandBtn : {"absent", "hidden", "visible"},
             more : SeqsUpTo(Urls, MaxMore),
             pending : {FALSE}] :
        /\ ~d.container => d.links = <<>> /\ d.expandBtn = "absent"
        /\ d.expandBtn # "visible" => d.more = <<>>
        /\ Len(d.links) + Len(d.more) <= MaxLinks }

Doms == { d \in AllDoms : FirstSeenInOrder(d.links \o d.more) }

Init ==
    /\ variant = "none"
    /\ cookie \in Cookies
    /\ csrf_token = GetCsrfToken(cookie)
    /\ dom \in Doms
    /\ buttons = 0
    /\ runs = [r \in RunIds |-> IdleRun]
    /\ net = [r \in RunIds |-> NoRequest]
    /\ blocked = {}

Next ==
    \/ \E v \in Scripts : CreateStartButton(v)
    \/ \E r \in RunIds, accept \in BOOLEAN : StartBatchBlock(r, accept)
    \/ \E r \in RunIds, accept \in BOOLEAN : ExpandWaitDone(r, accept)
    \/ PageExpand
    \/ \E r \in RunIds, resp \in Responses, applied \in BOOLEAN : FetchResolve(r, resp, applied)
    \/ \E r \in RunIds, applied \in BOOLEAN : FetchReject(r, applied)
    \/ \E r \in RunIds : JsonSettle(r)
    \/ \E r \in RunIds : SleepFire(r)

Spec == Init /\ [][Next]_vars

\* The extractor on every page, creators in any order: the trigger is clicked
\* and every confirmation prompt is declined, so a run ends after it has
\* extracted.
InitExtract ==
    /\ variant = "none"
    /\ cookie \in Cookies
    /\ csrf_token = GetCsrfToken(cookie)
    /\ dom \in AllDoms
    /\ buttons = 0
    /\ runs = [r \in RunIds |-> IdleRun]
    /\ net = [r \in RunIds |-> NoRequest]
    /\ blocked = {}

NextExtract ==
    \/ \E v \in Scripts : CreateStartButton(v)
    \/ \E r \in RunIds : StartBatchBlock(r, FALSE)
    \/ \E r \in RunIds : ExpandWaitDone(r, FALSE)
    \/ PageExpand

SpecExtract == InitExtract /\ [][NextExtract]_vars

\* The fetch of run r settles: it resolves with a response or it rejects.
FetchSettles(r) ==
    \/ \E resp \in Responses, applied \in BOOLEAN : FetchResolve(r, resp, applied)
    \/ \E applied \in BOOLEAN : FetchReject(r, applied)

\* The script in a browser whose requests all settle and whose timers all
\* fire: a pending fetch, a pending body read and a pending setTimeout are
\* each served in the end.
FairSpec ==
    /\ Spec
    /\ \A r \in RunIds :
           /\ WF_vars(FetchSettles(r))
           /\ WF_vars(JsonSettle(r))
           /\ WF_vars(SleepFire(r))

\* The script in a session whose cookie store changes after the load.
NextCookie == Next \/ CookieChange

SpecCookie == Init /\ [][NextCookie]_vars

\* The script on a page that changes its list during a run. What a run does
\* with the page does not depend on other runs, so the trigger is clicked once.
NextDom ==
    \/ \E v \in Scripts : CreateStartButton(v)
    \/ \E accept \in BOOLEAN : StartBatchBlock(1, accept)
    \/ \E accept \in BOOLEAN : ExpandWaitDone(1, accept)
    \/ PageExpand
    \/ \E resp \in Responses, applied \in BOOLEAN : FetchResolve(1, resp, applied)
    \/ \E applied \in BOOLEAN : FetchReject(1, applied)
    \/ JsonSettle(1)
    \/ SleepFire(1)
    \/ DomChange

SpecDom == Init /\ [][NextDom]_vars


\* ------------------------------------------------------------------ claims

Range(s) == {s[k] : k \in 1..Len(s)}

Last(s) == s[Len(s)]

HasDialog(run, kind) == \E k \in 1..Len(run.dialogs) : run.dialogs[k].kind = kind

\* The run ended with the final summary.
Completed(run) ==
    run.pc = "returned" /\ run.dialogs # <<>> /\ Last(run.dialogs).msg = "complete"

\* The run is in the loop (the spec's Running).
Running(run) == run.pc \in {"fetch", "json", "sleep"}

\* The runs whose block request has been sent and whose fetch has not settled.
InFlight == {r \in RunIds : net[r].stage = "sent"}

\* C1: at most one block request is in flight in every reachable state,
\* whatever the trigger clicks.
C1_AtMostOneRequestInFlight == Cardinality(InFlight) <= 1

\* C2: a run issues a block request or creates the progress overlay only
\* after the user accepted that run's confirmation prompt; a run whose prompt
\* was declined has returned with no request issued and no overlay created.
C2_NothingWithoutConfirmation ==
    \A r \in RunIds :
        /\ (runs[r].issued # <<>> \/ net[r] # NoRequest \/ runs[r].statusDiv # NoOverlay
                \/ Running(runs[r]))
               => HasDialog(runs[r], "confirm-ok")
        /\ HasDialog(runs[r], "confirm-cancel")
               => /\ runs[r].pc = "returned"
                  /\ Last(runs[r].dialogs).kind = "confirm-cancel"
                  /\ runs[r].issued = <<>>
                  /\ net[r] = NoRequest
                  /\ runs[r].statusDiv = NoOverlay

\* C2's case: one run was declined and another, accepted, has a request out.
C2_Witness ==
    \E r, q \in RunIds :
        /\ HasDialog(runs[r], "confirm-cancel")
        /\ HasDialog(runs[q], "confirm-ok") /\ net[q].stage = "sent"

\* C3: without a session credential the block call returns the
\* unauthenticated failure for every identifier and sends nothing, and every
\* trigger click ends where it began: a login notice, and no expansion, no
\* extraction, no confirmation, no overlay and no request.
C3_NoCredentialNothingHappens ==
    csrf_token = Null =>
        /\ \A uid \in Uids :
               LET entry == BlockUserEntry(csrf_token, uid)
               IN  /\ ~entry.sent
                   /\ entry.request = NoRequest
                   /\ Kind(entry.result) = "Unauthenticated"
        /\ \A r \in RunIds :
               /\ runs[r].pc \in {"idle", "returned"}
               /\ runs[r].pc = "returned"
                      => runs[r] = [IdleRun EXCEPT
                                        !.pc = "returned",
                                        !.dialogs = <<Dialog("alert", "login", 0, 0)>>]
               /\ net[r] = NoRequest
        /\ ~dom.pending
        /\ blocked = {}

\* C3's case: no credential, and the trigger was clicked twice.
C3_Witness ==
    /\ csrf_token = Null
    /\ \A r \in RunIds : runs[r].pc = "returned"

\* The step in which run r reads the page: startBatchBlock passes from its
\* start, or from the expand wait, to the code after getRecommendationUids().
Extracts(r) ==
    /\ csrf_token # Null
    /\ runs[r].pc \in {"idle", "expandWait"}
    /\ runs'[r].pc \notin {"idle", "expandWait"}

\* C4: when the extraction yields no identifier (the container is absent or
\* empty, or no link carries a numeric id) the run notifies the user and
\* returns: no confirmation prompt, no overlay, no request, and it stays
\* returned.
C4_EmptyExtractionNeverRuns ==
    [][\A r \in RunIds :
          /\ (Extracts(r) /\ GetRecommendationUids(dom) = <<>>)
                 => /\ runs'[r].pc = "returned"
                    /\ Last(runs'[r].dialogs) = Dialog("alert", "no creators", 0, 0)
                    /\ ~HasDialog(runs'[r], "confirm-ok")
                    /\ ~HasDialog(runs'[r], "confirm-cancel")
                    /\ runs'[r].statusDiv = NoOverlay
                    /\ runs'[r].issued = <<>>
                    /\ net'[r] = NoRequest
          /\ runs[r].pc = "returned" => runs'[r] = runs[r]]_vars

\* C4's case: a container with links, none of them with a numeric id, and a
\* run that returned on the empty notice.
C4_Witness ==
    \E r \in RunIds :
        /\ dom.container /\ dom.links # <<>>
        /\ runs[r].pc = "returned"
        /\ Last(runs[r].dialogs).msg = "no creators"

\* C5: a run issues its requests in extraction order, and the request for the
\* next identifier only after the request before it has resolved and the
\* delay after it has elapsed; the delay follows every call, failed or not.
C5_InOrderAfterResolveAndDelay ==
    \A r \in RunIds :
        LET run == runs[r]
            n == Len(run.issued)
        IN  /\ n <= Len(run.uidArray)
            /\ run.issued = SubSeq(run.uidArray, 1, n)
            /\ run.pc \in {"fetch", "json"} => run.resolved = n - 1 /\ run.delays = n - 1
            /\ run.pc = "sleep" => run.resolved = n /\ run.delays = n - 1
            /\ run.pc = "returned" => run.resolved = n /\ run.delays = n
            /\ net[r].stage # "none" => n >= 1 /\ net[r].fid = run.issued[n]

\* C5's case: the second request of a run is out after a first call that failed.
C5_Witness ==
    \E r \in RunIds :
        /\ runs[r].pc = "fetch"
        /\ Len(runs[r].issued) = 2
        /\ runs[r].successCount = 0
        /\ runs[r].delays = 1

\* C6: the final summary's success count is the number of the run's
\* responses that carried code 0, and its total is the number of identifiers
\* extracted.
C6_SummaryCountsCodeZero ==
    \A r \in RunIds :
        Completed(runs[r]) =>
            /\ Last(runs[r].dialogs).count = runs[r].code0
            /\ Last(runs[r].dialogs).total = Len(runs[r].uidArray)
            /\ runs[r].successCount = runs[r].code0

\* C6's case: a run over three creators, the first two answered with code 0
\* and blocked, the third not: the summary says 2 out of 3.
C6_Witness ==
    \E r \in RunIds :
        /\ Completed(runs[r])
        /\ runs[r].uidArray = <<"1", "2", "3">>
        /\ Last(runs[r].dialogs) = Dialog("alert", "complete", 2, 3)
        /\ blocked = {"1", "2"}

\* The step in which a call of run r returns a failure result.
CallFails(r) ==
    /\ runs'[r].resolved = runs[r].resolved + 1
    /\ ~runs'[r].lastCall.result.success

\* C7: a failed call (rejected by the provider, or a network error) leaves the
\* success counter as it was and sends the run to its delay, and when the
\* delay is over the run requests the next identifier, if there is one,
\* whatever the call before it returned.
C7_FailureDoesNotAbort ==
    [][\A r \in RunIds :
          /\ CallFails(r)
                 => /\ runs'[r].successCount = runs[r].successCount
                    /\ runs'[r].pc = "sleep"
          /\ (runs[r].pc = "sleep" /\ runs'[r].pc # "sleep")
                 => IF runs[r].i + 1 < Len(runs[r].uidArray)
                    THEN /\ runs'[r].pc = "fetch"
                         /\ runs'[r].issued
                                = Append(runs[r].issued, runs[r].uidArray[runs[r].i + 2])
                         /\ net'[r].stage = "sent"
                    ELSE /\ Completed(runs'[r])
                         /\ runs'[r].issued = runs[r].uidArray]_vars

\* C7's case: every call of a run over three creators failed, and the run
\* still requested all three and ended with its summary.
C7_Witness ==
    \E r \in RunIds :
        /\ Completed(runs[r])
        /\ Len(runs[r].uidArray) = 3
        /\ runs[r].successCount = 0
        /\ runs[r].issued = runs[r].uidArray

\* Whether the status is a 2xx.
Is2xx(status) == status \in 200..299

\* C8 as stated: a call has changed the provider's block list exactly when it
\* returns a success result, so after every failure, a lost or unreadable
\* response included, the provider has not applied the block.
C8_AppliedExactlyOnSuccess ==
    \A r \in RunIds :
        runs[r].pc = "sleep" =>
            (runs[r].lastCall.applied <=> runs[r].lastCall.result.success)

\* C8, amended: a call that returns success has blocked its target; a call
\* that returns the unauthenticated or a provider-rejected failure has left
\* the block list alone; a call that returns a network error may have blocked
\* its target or not. The block list holds only creators a run has requested.
C8_SuccessAppliedRejectionNot ==
    /\ \A r \in RunIds :
           runs[r].pc = "sleep" =>
               LET call == runs[r].lastCall
               IN  /\ call.result.success => call.applied /\ call.uid \in blocked
                   /\ Kind(call.result) \in {"Unauthenticated", "ProviderRejected"}
                          => ~call.applied
                   /\ call.applied => call.uid \in blocked
    /\ blocked \subseteq UNION {Range(runs[r].issued) : r \in RunIds}

\* C8's case: a call returned the network error and the provider had
\* applied the block.
C8_Witness ==
    \E r \in RunIds :
        /\ runs[r].pc = "sleep"
        /\ Kind(runs[r].lastCall.result) = "NetworkError"
        /\ runs[r].lastCall.applied
        /\ runs[r].lastCall.uid \in blocked

\* C9: every response is classified: code 0 is a success, any other code a
\* failure with the provider's message, and a non-2xx status or a body that
\* is not JSON a network error, never a success or a provider rejection.
C9_ResponsesClassified ==
    \A r \in RunIds :
        (runs[r].pc = "sleep" /\ runs[r].lastCall.via # "none") =>
            LET call == runs[r].lastCall
                resp == call.response
            IN  IF call.via = "fetch rejected" \/ ~Is2xx(resp.status) \/ ~resp.body.json
                THEN Kind(call.result) = "NetworkError"
                ELSE IF resp.body.code = 0
                THEN call.result = [success |-> TRUE, uid |-> call.uid]
                ELSE call.result = [success |-> FALSE, uid |-> call.uid,
                                    msg |-> resp.body.message]

\* C10: a run requests each identifier it extracted once and no other
\* identifier: no call is repeated, and a run that ended with its summary has
\* made as many calls as it extracted identifiers.
C10_OneRequestPerIdentifier ==
    \A r \in RunIds :
        LET run == runs[r]
        IN  /\ \A j, k \in 1..Len(run.issued) : run.issued[j] = run.issued[k] => j = k
            /\ Range(run.issued) \subseteq Range(run.uidArray)
            /\ run.resolved <= Len(run.issued)
            /\ Completed(run) =>
                   /\ Range(run.issued) = Range(run.uidArray)
                   /\ Len(run.issued) = Len(run.uidArray)
                   /\ run.resolved = Len(run.uidArray)

\* C10's case: of two creators one call succeeded and one failed, and the run
\* ended having made two calls.
C10_Witness ==
    \E r \in RunIds :
        /\ Completed(runs[r])
        /\ Len(runs[r].uidArray) = 2
        /\ runs[r].successCount = 1
        /\ Len(runs[r].issued) = 2

\* C11: a run that is in its loop goes on to its end when every request
\* settles and every timer fires: it reaches the state in which the overlay is
\* removed and the summary shown, and has returned. No step takes it out of
\* the loop any other way, and it leaves the loop only with every identifier
\* processed.
C11_RunningRunsToCompletion ==
    /\ \A r \in RunIds :
           Running(runs[r]) ~> (/\ Completed(runs[r])
                                /\ ~runs[r].statusDiv.attached
                                /\ net[r] = NoRequest)
    /\ [][\A r \in RunIds :
             Running(runs[r]) =>
                 \/ Running(runs'[r])
                 \/ /\ Completed(runs'[r])
                    /\ ~runs'[r].statusDiv.attached
                    /\ runs'[r].resolved = Len(runs[r].uidArray)
                    /\ runs'[r].uidArray = runs[r].uidArray]_vars

\* C11's case: a run over three creators ended while the other run, started
\* by a click during it, is still in its loop.
C11_Witness ==
    \E r, q \in RunIds :
        /\ Completed(runs[r]) /\ Len(runs[r].uidArray) = 3
        /\ ~runs[r].statusDiv.attached
        /\ Running(runs[q])

\* Whether a link's URL has the numeric-id segment after the host marker.
HasId(url) == url.marker /\ url.digits # ""

\* The links that repeat an identifier an earlier link carried.
Repeats(links) ==
    {k \in 1..Len(links) :
        /\ HasId(links[k])
        /\ \E j \in 1..(k - 1) : HasId(links[j]) /\ links[j].digits = links[k].digits}

\* The place of the first link that carries identifier u.
FirstPlace(links, u) ==
    CHOOSE k \in 1..Len(links) :
        /\ HasId(links[k]) /\ links[k].digits = u
        /\ \A j \in 1..(k - 1) : ~(HasId(links[j]) /\ links[j].digits = u)

\* What the extractor owes for the links it read.
ExtractedAsSpecified(out, links) ==
    LET profile == {k \in 1..Len(links) : HasId(links[k])}
    IN  /\ Len(out) = Cardinality(profile) - Cardinality(Repeats(links))
        /\ \A a, b \in 1..Len(out) : out[a] = out[b] => a = b
        /\ Range(out) = {links[k].digits : k \in profile}
        /\ \A a, b \in 1..Len(out) :
               a < b => FirstPlace(links, out[a]) < FirstPlace(links, out[b])

\* C12: of N profile links, D of them repeats, the extractor returns N - D
\* identifiers, none twice, in the order of their first link; a link without
\* the numeric-id segment gives no identifier and no error.
C12_ExtractorDedupsInDomOrder ==
    [][\A r \in RunIds :
          Extracts(r) =>
              /\ dom.container => ExtractedAsSpecified(runs'[r].uidArray, dom.links)
              /\ ~dom.container => runs'[r].uidArray = <<>>]_vars

\* C12's case: three profile links, the third a repeat of the first, the
\* creators not in numeric order: two identifiers, in link order.
C12_Witness ==
    \E r \in RunIds :
        /\ dom.links = <<[marker |-> TRUE, digits |-> "2"],
                         [marker |-> TRUE, digits |-> "1"],
                         [marker |-> TRUE, digits |-> "2"]>>
        /\ runs[r].uidArray = <<"2", "1">>

\* The run has read the page: it is past getRecommendationUids().
Extracted(run) ==
    /\ run.pc \notin {"idle", "expandWait"}
    /\ ~HasDialog(run, "alert") \/ run.dialogs[1].msg # "login"

\* C13 as stated: on a page nothing else changes, any two runs extract the
\* same identifier set, the expand-list step included.
C13_RerunSameIdentifiers ==
    \A r, q \in RunIds :
        (Extracted(runs[r]) /\ Extracted(runs[q]))
            => Range(runs[r].uidArray) = Range(runs[q].uidArray)

\* C13, amended: the step that extracts leaves the page as it was, the script
\* without the expand step never changes the page, and the runs extract the
\* same identifiers as long as none of them has clicked the expand control.
C13_SameIdentifiersUnlessExpanded ==
    [][/\ \A r \in RunIds : Extracts(r) => dom' = dom
       /\ variant = "main" => dom' = dom
       /\ (variant' = "main" \/ \A r \in RunIds : runs'[r].clicks = 0)
              => \A r, q \in RunIds :
                     (Extracted(runs'[r]) /\ Extracted(runs'[q]))
                         => runs'[r].uidArray = runs'[q].uidArray]_vars

\* C13's case: the expanding script on a page whose expand control is not to
\* be clicked, run twice, with the same two identifiers both times.
C13_Witness ==
    /\ variant = "expand"
    /\ \A r \in RunIds :
           /\ Extracted(runs[r])
           /\ runs[r].clicks = 0
           /\ runs[r].uidArray = <<"1", "2">>

\* C14: a run that extracts from a page without the container gets the empty
\* list and shows the user the container-not-found error, whichever script
\* the button belongs to.
C14_MissingContainerSurfaced ==
    [][\A r \in RunIds :
          (Extracts(r) /\ ~dom.container) =>
              /\ runs'[r].uidArray = <<>>
              /\ \E k \in 1..Len(runs'[r].dialogs) :
                     /\ runs'[r].dialogs[k].kind = "alert"
                     /\ runs'[r].dialogs[k].msg = "container not found"]_vars

Overlays == {r \in RunIds : runs[r].statusDiv.attached}

\* C15: the page holds an overlay exactly when a run is Running, never more
\* than one, and none once every run has returned.
C15_OneOverlayWhileRunning ==
    /\ (Overlays # {}) <=> (\E r \in RunIds : Running(runs[r]))
    /\ Cardinality(Overlays) <= 1
    /\ (\A r \in RunIds : runs[r].pc = "returned") => Overlays = {}

\* C16: whatever is mounted and however often, the page never holds more than
\* one trigger button, and once it holds one, no step adds a button or changes
\* whose startBatchBlock the button carries.
C16_AtMostOneButton ==
    [][/\ buttons' <= 1
       /\ buttons >= 1 => (buttons' = buttons /\ variant' = variant)]_vars

\* C16's case: the page holds the button of the expanding script, it has been
\* clicked, and both scripts' mounts are still there to run again.
C16_Witness ==
    /\ buttons = 1
    /\ variant = "expand"
    /\ \E r \in RunIds : runs[r].pc = "returned"
    /\ \A v \in Scripts : ENABLED CreateStartButton(v)

\* C17: the credential is the cookie's value at load and never changes;
\* every request sent carries it, whatever the cookie holds by then; and a
\* session loaded without it never sends a request.
C17_CredentialReadOnceAtLoad ==
    /\ csrf_token = GetCsrfToken(cookie)
    /\ [][csrf_token' = csrf_token]_vars
    /\ [](\A r \in RunIds :
              /\ net[r].stage # "none" => net[r].csrf = csrf_token
              /\ csrf_token = Null => (net[r] = NoRequest /\ runs[r].issued = <<>>))

\* C17's case: bili_jct has been renewed since the load, and a block request
\* is in flight with the value read at load.
C17_Witness ==
    /\ GetCsrfToken(cookie) = "tok2"
    /\ \E r \in RunIds :
           /\ net[r].stage = "sent"
           /\ net[r].csrf = "tok"
           /\ Len(runs[r].issued) >= 2

\* The step is the start of a run that gets past the credential check.
Starts(r) ==
    /\ csrf_token # Null
    /\ runs[r].pc = "idle"
    /\ runs'[r].pc # "idle"

\* C18: in the expanding script a run clicks the expand control at most once,
\* at its start and only when the control is there and shown; it then waits
\* and has extracted nothing until the wait is over; when the control is
\* absent or hidden the run extracts in its first step, with no click or wait.
C18_ExpandOnceBeforeExtraction ==
    [][variant = "expand" =>
          \A r \in RunIds :
              /\ runs'[r].clicks <= 1
              /\ runs[r].pc # "idle" => runs'[r].clicks = runs[r].clicks
              /\ Starts(r) =>
                     IF dom.container /\ dom.expandBtn = "visible"
                     THEN /\ runs'[r].clicks = 1
                          /\ runs'[r].pc = "expandWait"
                          /\ dom'.pending
                     ELSE /\ runs'[r].clicks = 0
                          /\ Extracted(runs'[r])
                          /\ runs'[r].uidArray = GetRecommendationUids(dom)
                          /\ dom' = dom
              /\ runs'[r].pc = "expandWait" =>
                     /\ ~Extracted(runs'[r])
                     /\ runs'[r].uidArray = <<>>
                     /\ runs'[r].dialogs = <<>>
                     /\ net'[r] = NoRequest
              /\ (runs[r].pc = "expandWait" /\ runs'[r].pc # "expandWait") =>
                     /\ Extracted(runs'[r])
                     /\ runs'[r].clicks = 1
                     /\ runs'[r].uidArray = GetRecommendationUids(dom)]_vars

\* C18's case: a run of the expanding script that clicked, waited, and then
\* extracted the cards the page had unfolded by then.
C18_Witness ==
    /\ variant = "expand"
    /\ \E r \in RunIds :
           /\ runs[r].clicks = 1
           /\ Extracted(runs[r])
           /\ Len(runs[r].uidArray) = 2
           /\ dom.expandBtn = "hidden"

IsPrefix(s, t) == Len(s) <= Len(t) /\ \A k \in 1..Len(s) : s[k] = t[k]

\* The run's requests, overlay and summary all come from its uidArray.
FromSnapshot(run) ==
    /\ IsPrefix(run.issued, run.uidArray)
    /\ Running(run) =>
           /\ run.statusDiv.text[2] = Len(run.uidArray)
           /\ run.statusDiv.text[3] = Last(run.issued)
    /\ Completed(run) =>
           /\ run.issued = run.uidArray
           /\ Last(run.dialogs).total = Len(run.uidArray)
           /\ \E k \in 1..Len(run.dialogs) :
                  /\ run.dialogs[k].kind = "confirm-ok"
                  /\ run.dialogs[k].count = Last(run.dialogs).total

\* C19: whatever the page does to its list during the loop, a run keeps the
\* identifiers it extracted, requests them in that order and no others, shows
\* that total in its overlay, and ends with every one of them requested and a
\* summary whose total is the count the confirmation prompt showed.
C19_RunProcessesItsSnapshot ==
    /\ [][\A r \in RunIds :
             Extracted(runs[r]) => runs'[r].uidArray = runs[r].uidArray]_vars
    /\ [](\A r \in RunIds : FromSnapshot(runs[r]))

\* C19's case: a run has completed on the two identifiers it extracted, in
\* their order, and the page lists other creators by now, in another order.
C19_Witness ==
    \E r \in RunIds :
        /\ Completed(runs[r])
        /\ runs[r].uidArray = <<"1", "2">>
        /\ runs[r].issued = <<"1", "2">>
        /\ GetRecommendationUids(dom) = <<"3", "1">>

====
